---- MODULE Spec2Model ----
(***************************************************************************)
(* A model of the prediction core of backend/app/models/model_handler.py:  *)
(* the per-player prediction context, the per-kind inference adapters, the *)
(* weighted ensemble combiner and the PredictionEngine that wires them.    *)
(*                                                                         *)
(* Numbers.  Python floats are modelled as exact rationals <<n, d>> with   *)
(* d > 0 in lowest terms, so that a weighted sum, a renormalisation or a   *)
(* floor is computed, not assumed.  A value that may be None is a tuple:   *)
(* << >> is None and <<v>> is the value v.  A Python dict is a record      *)
(* whose DOMAIN is the dict's key set, so "key in dict" is a DOMAIN test.  *)
(***************************************************************************)
EXTENDS Integers, Sequences, FiniteSets, TLC

(***************************************************************************)
(* Bounds of the model (not program constants).                            *)
(***************************************************************************)
MaxWholeRaw == 0
MaxAppends == 11

(***************************************************************************)
(* Program constants.                                                      *)
(***************************************************************************)
max_context_size == 10
DEFAULT_WINDOW_SIZE == 3

Kinds == {"lstm", "sarimax", "poisson"}
Players == {"p1", "p2"}

None == << >>
Some(v) == <<v>>

(***************************************************************************)
(* Exact rational arithmetic.                                              *)
(***************************************************************************)
Abs(n) == IF n < 0 THEN -n ELSE n

RECURSIVE GCD(_, _)
GCD(a, b) == IF b = 0 THEN a ELSE GCD(b, a % b)

Rat(n, d) == LET g == GCD(Abs(n), d) IN <<n \div g, d \div g>>
Tenths(t) == Rat(t, 10)
Zero == <<0, 1>>
One == <<1, 1>>
\* over the least common denominator, to keep the intermediate numbers small
RAdd(a, b) ==
  LET g == GCD(a[2], b[2])
  IN Rat(a[1] * (b[2] \div g) + b[1] * (a[2] \div g), (a[2] \div g) * b[2])
RSub(a, b) == RAdd(a, <<-b[1], b[2]>>)
RMul(a, b) ==
  LET g == GCD(Abs(a[1]), b[2])
      h == GCD(Abs(b[1]), a[2])
  IN <<(a[1] \div g) * (b[1] \div h), (a[2] \div h) * (b[2] \div g)>>
\* a / b, for b > 0
RDiv(a, b) == RMul(a, <<b[2], b[1]>>)
RLess(a, b) == a[1] * b[2] < b[1] * a[2]
RLeq(a, b) == a[1] * b[2] <= b[1] * a[2]
RAbs(a) == <<Abs(a[1]), a[2]>>
RMax(a, b) == IF RLess(a, b) THEN b ELSE a
RMin(a, b) == IF RLess(b, a) THEN b ELSE a
\* floor of a non-negative rational
Floor(a) == a[1] \div a[2]
Whole(n) == <<n, 1>>

\* the sum of f[x] over x in S
RECURSIVE SumOver(_, _)
SumOver(S, f) ==
  IF S = {} THEN Zero
  ELSE LET x == CHOOSE y \in S : TRUE
       IN RAdd(f[x], SumOver(S \ {x}, f))

\* dict.get(key, default)
Get(dict, key, default) == IF key \in DOMAIN dict THEN dict[key] ELSE default
\* dict[key] = value
SetKey(dict, key, value) ==
  [k \in DOMAIN dict \cup {key} |-> IF k = key THEN value ELSE dict[k]]

LastN(s, n) == SubSeq(s, Len(s) - n + 1, Len(s))
Min(a, b) == IF a < b THEN a ELSE b
SeqToSet(s) == {s[i] : i \in DOMAIN s}

(***************************************************************************)
(* config.py                                                               *)
(***************************************************************************)
MODEL_WEIGHTS ==
  [lstm |-> Tenths(4), sarimax |-> Tenths(3), poisson |-> Tenths(3)]

VARIABLES
  has_tf,              \* HAS_TF: whether TensorFlow could be imported
  storage,             \* the files outside the process: model files and the CSV
  model_cache,         \* ModelLoader.model_cache: cache key -> bundle
  historical_data,     \* PredictionEngine.historical_data: None or the table
  prediction_context,  \* PredictionContext.contexts: player -> list of entries
  appended,            \* history: every entry add_prediction was given, per player
  handled,             \* history: the number of requests the engine has handled
  request,             \* the arguments of the call a specification draws in Init
  response             \* what the last call returned to its caller

vars == <<has_tf, storage, model_cache, historical_data, prediction_context,
          appended, handled, request, response>>

(***************************************************************************)
(* redondeo_probabilistico_mejorado, for one prediction.  prob_ajustada is *)
(* clip(frac + N(0, varianza), 0, 1): the Gaussian term can take it to any *)
(* value of [0, 1] whatever frac is, so both outcomes of the comparison    *)
(* with np.random.random() are possible for every pred.  round_up is the   *)
(* outcome of that comparison.                                             *)
(***************************************************************************)
\* a slip that drops parte_entera
redondeo_sin_parte_entera(pred, round_up) == IF round_up THEN 1 ELSE 0

redondeo_probabilistico_mejorado(pred, round_up) ==
  LET p == RMax(Zero, pred)
      parte_entera == Floor(p)
  IN IF round_up THEN parte_entera + 1 ELSE parte_entera

(***************************************************************************)
(* PredictionContext.add_prediction: append, then drop the oldest entry    *)
(* when the list is longer than max_context_size.  The entry's timestamp   *)
(* is not kept: entries are read in list order.                            *)
(***************************************************************************)
ContextEntry(match_data, prediction) ==
  [match_data |-> match_data, prediction |-> prediction]

\* a slip that drops the newest entry (pop() for pop(0))
add_prediction_evict_newest(context) ==
  IF Len(context) > max_context_size
  THEN SubSeq(context, 1, Len(context) - 1) ELSE context

add_prediction_evict(context) ==
  IF Len(context) > max_context_size THEN Tail(context) ELSE context

\* a slip that appends and never evicts
add_prediction_unbounded(contexts, player_name, match_data, prediction) ==
  [contexts EXCEPT ![player_name] =
     Append(@, ContextEntry(match_data, prediction))]

\* PredictionContext.add_prediction: append, then pop(0) when over the size
add_prediction(contexts, player_name, match_data, prediction) ==
  [contexts EXCEPT ![player_name] =
     add_prediction_evict(Append(@, ContextEntry(match_data, prediction)))]

\* the history variable that goes with add_prediction
log_prediction(log, player_name, match_data, prediction) ==
  [log EXCEPT ![player_name] = Append(@, ContextEntry(match_data, prediction))]

\* PredictionContext.get_context
get_context(contexts, player_name) == contexts[player_name]

(***************************************************************************)
(* PredictionEngine.calculate_prediction_ensemble(predictions, weights).   *)
(* weights is None or a dict; round_up is the draw of the final rounding.  *)
(***************************************************************************)
IsAvailable(pred) ==
  /\ Get(pred, "disponible", FALSE)
  /\ "raw_prediction" \in DOMAIN pred

available_predictions(predictions) ==
  {m \in DOMAIN predictions : IsAvailable(predictions[m])}

\* base_weight * (0.5 + confidence), confidence defaulting to 0.5
adjusted_weight(pred, base_weight) ==
  LET confidence == IF "confidence" \in DOMAIN pred
                    THEN pred.confidence[1] ELSE Tenths(5)
  IN RMul(base_weight, RAdd(Tenths(5), confidence))

\* a slip that gives no weight to a model the map leaves out
base_weight_or_zero(weights, model) == Get(weights, model, Zero)

\* line 1852: weights.get(model, 1.0)
base_weight(weights, model) == Get(weights, model, One)

\* a slip that keeps the adjusted weights as they are
dynamic_weights_unnormalised(predictions, weights) ==
  LET avail == available_predictions(predictions)
  IN [m \in avail |->
        adjusted_weight(predictions[m], base_weight(weights, m))]

dynamic_weights(predictions, weights) ==
  LET avail == available_predictions(predictions)
      adjusted == [m \in avail |->
                     adjusted_weight(predictions[m], base_weight(weights, m))]
      total_weight == SumOver(avail, adjusted)
  IN IF RLess(Zero, total_weight)
     THEN [m \in avail |-> RDiv(adjusted[m], total_weight)]
     ELSE [m \in avail |-> Rat(1, Cardinality(avail))]

\* a slip that reports starvation as a prediction of zero goals
no_predictions_result_as_zero ==
  [prediction |-> Some(0), confidence |-> Some(Zero),
   raw_prediction |-> Some(Zero), disponible |-> TRUE]

\* lines 1838-1845: no model is available
no_predictions_result ==
  [prediction |-> None, confidence |-> None, raw_prediction |-> None,
   error |-> Some("No hay predicciones disponibles para ensemble"),
   disponible |-> FALSE]

calculate_prediction_ensemble(predictions, weights_arg, round_up) ==
  LET weights == IF weights_arg = None THEN MODEL_WEIGHTS ELSE weights_arg[1]
      avail == available_predictions(predictions)
      dw == dynamic_weights(predictions, weights)
      weighted_sum ==
        SumOver(avail, [m \in avail |->
                          RMul(predictions[m].raw_prediction[1], dw[m])])
      ensemble_pred == RMax(Zero, weighted_sum)
      weighted_confidence ==
        SumOver(avail, [m \in avail |->
                          RMul(IF "confidence" \in DOMAIN predictions[m]
                               THEN predictions[m].confidence[1] ELSE Tenths(5),
                               dw[m])])
  IN IF avail = {}
     THEN no_predictions_result
     ELSE [prediction |->
             Some(redondeo_probabilistico_mejorado(ensemble_pred, round_up)),
           confidence |-> Some(weighted_confidence),
           raw_prediction |-> Some(ensemble_pred),
           dynamic_weights |-> dw,
           disponible |-> TRUE]

(***************************************************************************)
(* PredictionEngine.ensemble_predictions, apart from its three calls of    *)
(* predict_with_model: the weights it starts from, the entry it records    *)
(* for lstm when TensorFlow is missing, and everything after the three     *)
(* per-kind results are in model_predictions.                              *)
(***************************************************************************)
KindOrder == <<"lstm", "sarimax", "poisson">>

\* a slip that drops the lstm weight and leaves the others as they were
ensemble_weights_not_rescaled(weights_arg, tf) ==
  LET weights == IF weights_arg = None THEN MODEL_WEIGHTS ELSE weights_arg[1]
  IN IF tf THEN weights
     ELSE [m \in DOMAIN weights \ {"lstm"} |-> weights[m]]

\* weights after "if weights is None" and the HAS_TF branch
ensemble_weights(weights_arg, tf) ==
  LET weights == IF weights_arg = None THEN MODEL_WEIGHTS ELSE weights_arg[1]
      rest == [m \in DOMAIN weights \ {"lstm"} |-> weights[m]]
      total == SumOver(DOMAIN rest, rest)
  IN IF tf \/ "lstm" \notin DOMAIN weights THEN weights
     ELSE IF RLess(Zero, total)
          THEN [m \in DOMAIN rest |-> RDiv(rest[m], total)]
          ELSE rest

tf_unavailable_result ==
  [error |-> Some("TensorFlow no esta disponible"), prediction |-> None,
   confidence |-> None, raw_prediction |-> None, disponible |-> FALSE]

\* available_models: the kinds whose result has disponible true, in call order
available_models(model_predictions) ==
  SelectSeq(KindOrder,
            LAMBDA m : /\ m \in DOMAIN model_predictions
                       /\ Get(model_predictions[m], "disponible", FALSE))

\* the per-kind summary the result carries
model_summary(pred) ==
  [prediction |-> Get(pred, "prediction", None),
   confidence |-> Get(pred, "confidence", None),
   raw |-> Get(pred, "raw_prediction", None),
   disponible |-> Get(pred, "disponible", FALSE),
   error |-> Get(pred, "error", None)]

\* lines 2007-2059: the combined result goes into the context when it is
\* available
ensemble_finish_combined(contexts, player_name, match_data, weights, model_predictions, models, ensemble_result) ==
  [contexts |->
     IF ensemble_result.disponible
     THEN add_prediction(contexts, player_name, match_data,
                         ensemble_result.raw_prediction[1])
     ELSE contexts,
   added |-> ensemble_result.disponible,
   result |->
     [ensemble_prediction |-> Get(ensemble_result, "prediction", None),
      confidence |-> Get(ensemble_result, "confidence", None),
      raw_prediction |-> Get(ensemble_result, "raw_prediction", None),
      disponible |-> ensemble_result.disponible,
      model_predictions |->
        [m \in Kinds |-> model_summary(model_predictions[m])],
      metadata |->
        [weights |-> weights,
         dynamic_weights |-> Get(ensemble_result, "dynamic_weights", << >>),
         models_used |-> models,
         context_size |->
           Len(get_context(
                 IF ensemble_result.disponible
                 THEN add_prediction(contexts, player_name, match_data,
                                     ensemble_result.raw_prediction[1])
                 ELSE contexts,
                 player_name))]]]

\* lines 1989-2005
ensemble_finish_models(contexts, player_name, match_data, weights, model_predictions, round_up, models) ==
  IF models = << >>
  THEN [contexts |-> contexts,
        added |-> FALSE,
        result |->
          [ensemble_prediction |-> None, confidence |-> None,
           raw_prediction |-> None, disponible |-> FALSE,
           error |-> Some("No hay modelos disponibles para prediccion"),
           model_predictions |-> model_predictions,
           metadata |-> [weights |-> weights]]]
  ELSE ensemble_finish_combined(
         contexts, player_name, match_data, weights, model_predictions,
         models,
         calculate_prediction_ensemble(
           [m \in SeqToSet(models) |-> model_predictions[m]],
           Some(weights), round_up))

\* a slip that returns the combined result and leaves the context alone
ensemble_finish_unsaved(contexts, player_name, match_data, weights, model_predictions, round_up) ==
  [ensemble_finish_models(contexts, player_name, match_data, weights,
                          model_predictions, round_up,
                          available_models(model_predictions))
     EXCEPT !.contexts = contexts]

\* lines 1986-2059: returns the contexts and the result
ensemble_finish(contexts, player_name, match_data, weights, model_predictions, round_up) ==
  ensemble_finish_models(contexts, player_name, match_data, weights,
                         model_predictions, round_up,
                         available_models(model_predictions))

(***************************************************************************)
(* What lies outside the process.  storage.files says, for each kind, what *)
(* the model directory holds for a player; storage.csv says whether the    *)
(* historical CSV can be read.                                             *)
(*   full       the pickle and what goes with it (for lstm: H5 and scaler) *)
(*   no_scaler  lstm: the pickle and the H5 file, no scaler file           *)
(*   no_h5      lstm: the pickle and the scaler, no H5 file                *)
(*   bad_h5     lstm: as full, with an H5 file that Keras cannot load      *)
(*   embedded   lstm: as no_h5, and the pickle carries a modelo_entrenado  *)
(*   h5_only    lstm: the H5 file only                                     *)
(*   no_model   sarimax, poisson: a pickle whose modelo_entrenado is None  *)
(*   missing    no file                                                    *)
(*   corrupt    a pickle that cannot be deserialized                       *)
(***************************************************************************)
LstmArtifacts ==
  {"full", "no_scaler", "no_h5", "bad_h5", "embedded", "h5_only", "missing",
   "corrupt"}
PickleArtifacts == {"full", "no_model", "missing", "corrupt"}

Installed ==
  [files |-> [lstm |-> "full", sarimax |-> "full", poisson |-> "full"],
   csv |-> TRUE]

\* the historical CSV, in file order: p1 has played two matches, p2 five
\* mapeo_equipos, the names spelled without their accents
mapeo_equipos ==
  [k \in {"Atletico Junior", "Junior"} |-> "Junior"]
  @@ [k \in {"Nacional", "Atletico Nacional"} |-> "Atletico Nacional"]
  @@ [k \in {"Deportivo Pereira", "Pereira"} |-> "Pereira"]
  @@ [k \in {"Atletico Bucaramanga", "Bucaramanga"} |-> "Bucaramanga"]
  @@ [k \in {"Santa Fe", "Independiente Santa Fe"} |->
        "Independiente Santa Fe"]
  @@ [k \in {"Cali", "Deportivo Cali"} |-> "Deportivo Cali"]
  @@ [k \in {"America", "America de Cali"} |-> "America de Cali"]
  @@ [k \in {"Millonarios", "Once Caldas", "La Equidad", "Envigado",
             "Union Magdalena", "Llaneros"} |-> k]
  @@ [k \in {"Aguilas Doradas"} |-> "Rionegro"]
  @@ [k \in {"Fortaleza"} |-> "Fortaleza CEIF"]
  @@ [k \in {"Pasto", "Deportivo Pasto"} |-> "Deportivo Pasto"]
  @@ [k \in {"Tolima", "Deportes Tolima"} |-> "Deportes Tolima"]
  @@ [k \in {"Alianza"} |-> "Alianza FC"]
  @@ [k \in {"Medellin"} |-> "Independiente Medellin"]
  @@ [k \in {"Chico", "Boyaca Chico"} |-> "Boyaca Chico"]

\* a lookup that gives the empty name for a name the table lacks
estandarizar_nombre_equipo_o_vacio(nombre) ==
  IF nombre \in DOMAIN mapeo_equipos THEN mapeo_equipos[nombre] ELSE ""

\* estandarizar_nombre_equipo: mapeo_equipos.get(nombre, nombre)
estandarizar_nombre_equipo(nombre) ==
  IF nombre \in DOMAIN mapeo_equipos THEN mapeo_equipos[nombre] ELSE nombre

\* validation.py, ModelSelectionRequest(models=..., weights=...).  The class
\* declares validate_models and validate_weights as plain classmethods and
\* names them only in Config.schema_extra, which runs when a JSON schema is
\* generated and never when an instance is built: construction keeps both
\* fields as they were supplied.  Once a schema has been generated the
\* methods sit in the fields' pre_validators, where the library calls them
\* with arguments they do not take, and construction is a validation error.
ModelSelectionRequest(models, weights, schema_generated) ==
  IF schema_generated
  THEN [exception |-> "ValidationError"]
  ELSE [models |-> models, weights |-> weights]

\* pd.Timestamp('2023-01-01') of line 535, dates that matter to the cutoff
\* being written yyyymmdd
fecha_inicio == 20230101

Row(jugador, fecha, goles, oponente, sede) ==
  [Jugador |-> jugador, Fecha |-> fecha, Goles |-> Whole(goles),
   Oponente_Estandarizado |-> oponente, Sede_Local |-> sede]

HISTORICAL_DATA_FILE ==
  << Row("p2", 3, 2, "A", 1), Row("p1", 1, 1, "A", 1), Row("p2", 1, 1, "A", 0),
     Row("p2", 2, 0, "B", 1), Row("p1", 2, 0, "B", 0), Row("p2", 5, 3, "B", 1),
     Row("p2", 4, 1, "C", 0) >>

\* what pickle.load gives for a readable pickle of a kind and player: the
\* lstm bundles are trained with a window of three matches, and of the
\* sarimax bundles only p2's uses exogenous variables
pickled(model_type, player_name, artifact) ==
  IF model_type = "lstm"
  THEN IF artifact = "embedded"
       THEN [modelo_entrenado |-> TRUE,
             modelo_config |->
               [tipo_modelo |-> "lstm", ventana |-> DEFAULT_WINDOW_SIZE]]
       ELSE [modelo_config |->
               [tipo_modelo |-> "lstm", ventana |-> DEFAULT_WINDOW_SIZE]]
  ELSE IF model_type = "sarimax"
  THEN [modelo_entrenado |-> artifact = "full",
        modelo_config |->
          [tipo_modelo |-> "sarimax",
           usa_exogenas |-> player_name = "p2",
           variables_exogenas |->
             <<"Factor_Oponente", "Tendencia_Reciente",
               "Promedio_Historico_vs_Oponente">>]]
  ELSE [modelo_entrenado |-> artifact = "full",
        modelo_config |->
          [tipo_modelo |-> "poisson",
           features |-> <<"Factor_Oponente", "Tendencia", "Tiros_a_puerta">>]]

(***************************************************************************)
(* ModelLoader.load_model.  In a bundle, modelo_keras, modelo_entrenado    *)
(* and scaler say whether the object is there (not None).  The result is   *)
(* the cache after the call, the bundle returned (or the exception raised, *)
(* as [exception |-> its type]) and whether the call went to storage.      *)
(***************************************************************************)
cache_key(model_type, player_name) == <<model_type, player_name>>

load_failure(model_type, error) ==
  [error |-> Some(error), modelo_entrenado |-> FALSE,
   modelo_config |-> [tipo_modelo |-> model_type], disponible |-> FALSE]

\* lines 350-378: no pickle, only the H5 file
load_h5_only ==
  [disponible |-> TRUE,
   modelo_config |-> [tipo_modelo |-> "lstm", ventana |-> DEFAULT_WINDOW_SIZE],
   modelo_keras |-> TRUE, scaler |-> TRUE]

\* lines 438-479: what the H5 file and the scaler file add to the pickle
lstm_companions(model_data, artifact, tf) ==
  [k \in DOMAIN model_data \cup {"modelo_keras", "scaler"} |->
     IF k = "modelo_keras" THEN artifact \in {"full", "no_scaler"} /\ tf
     ELSE IF k = "scaler"
     THEN artifact \in {"full", "no_h5", "bad_h5", "embedded"}
     ELSE model_data[k]]

\* lines 443-459: why there is no Keras model
error_keras(artifact, tf) ==
  IF artifact \notin {"full", "no_scaler", "bad_h5"}
  THEN "Archivo H5 no encontrado"
  ELSE IF ~tf THEN "TensorFlow no esta disponible"
  ELSE "Error al cargar modelo Keras"

\* a slip that leaves out the check of lines 481-484
lstm_available_unchecked(loaded, artifact, tf) ==
  SetKey(loaded, "disponible", TRUE)

\* lines 481-484: unavailable when there is neither a Keras model nor a
\* modelo_entrenado
lstm_available(loaded, artifact, tf) ==
  IF loaded.modelo_keras \/ Get(loaded, "modelo_entrenado", FALSE)
  THEN SetKey(loaded, "disponible", TRUE)
  ELSE SetKey(SetKey(SetKey(loaded, "error_keras", error_keras(artifact, tf)),
                     "disponible", FALSE),
              "error", Some(error_keras(artifact, tf)))

\* lines 425-484: the pickle of an lstm bundle, then its H5 file and scaler
load_lstm_pickle(player_name, artifact, tf) ==
  lstm_available(
    lstm_companions(pickled("lstm", player_name, artifact), artifact, tf),
    artifact, tf)

\* lines 490-497: the except clause around pickle.load.  Its log line reads
\* file_name, a local that the lstm branch never binds (it binds
\* pkl_file_name and h5_file_name), so for lstm the handler itself raises.
load_model_except(model_type) ==
  IF model_type = "lstm"
  THEN [exception |-> "UnboundLocalError"]
  ELSE load_failure(model_type, "Error al cargar el modelo")

load_model(cache, model_type, player_name, files, tf) ==
  LET key == cache_key(model_type, player_name)
      artifact == files[model_type]
      store(model_data) ==
        [cache |-> SetKey(cache, key, model_data), bundle |-> model_data,
         read |-> TRUE]
      return(model_data) ==
        [cache |-> cache, bundle |-> model_data, read |-> TRUE]
  IN IF key \in DOMAIN cache
     THEN [cache |-> cache, bundle |-> cache[key], read |-> FALSE]
     ELSE IF model_type = "lstm" /\ artifact = "h5_only"
     THEN IF tf THEN store(load_h5_only)
          ELSE return(load_failure(model_type, "TensorFlow no esta disponible"))
     ELSE IF artifact = "missing"
     THEN return(load_failure(model_type, "Modelo no encontrado"))
     ELSE IF artifact = "corrupt"
     THEN return(load_model_except(model_type))
     ELSE IF model_type = "lstm"
     THEN store(load_lstm_pickle(player_name, artifact, tf))
     ELSE store(SetKey(pickled(model_type, player_name, artifact),
                       "disponible", TRUE))

(***************************************************************************)
(* PredictionEngine.get_player_historical_data: the player's rows in date  *)
(* order.  sort_values is the stable sort pandas does on a frame this      *)
(* small.                                                                  *)
(***************************************************************************)
RECURSIVE sort_values(_)
sort_values(rows) ==
  IF rows = << >> THEN << >>
  ELSE LET first == Head(rows)
           rest == sort_values(Tail(rows))
           k == Cardinality({i \in DOMAIN rest : rest[i].Fecha < first.Fecha})
       IN SubSeq(rest, 1, k) \o <<first>> \o SubSeq(rest, k + 1, Len(rest))

\* the slice without the cutoff of lines 533-537
get_player_historical_data_uncut(data, player_name) ==
  sort_values(SelectSeq(data, LAMBDA r : r.Jugador = player_name))

\* PredictionEngine.get_player_historical_data: the player's rows by date,
\* and for Hugo_Rodallega those from fecha_inicio on
get_player_historical_data(data, player_name) ==
  LET player_data ==
        sort_values(SelectSeq(data, LAMBDA r : r.Jugador = player_name))
  IN IF player_name = "Hugo_Rodallega"
     THEN SelectSeq(player_data, LAMBDA r : r.Fecha >= fecha_inicio)
     ELSE player_data

(***************************************************************************)
(* Feature preparation.  A working history is the player's slice with one  *)
(* pseudo-row per context entry merged in, Goles being the entry's stored  *)
(* prediction, sorted by date.  Each strategy writes what it derives into  *)
(* the caller's match_data: its result is the match_data after the call    *)
(* and the dict it returns (data).                                         *)
(***************************************************************************)
RECURSIVE SumSeq(_)
SumSeq(s) == IF s = << >> THEN Zero ELSE RAdd(Head(s), SumSeq(Tail(s)))

\* the mean of a non-empty sequence
Mean(s) == RDiv(SumSeq(s), Whole(Len(s)))
Goles(df) == [i \in DOMAIN df |-> df[i].Goles]

\* lines 665-667, the Racha_Con_Gol column of the working history: rows are
\* grouped into blocks of consecutive rows alike in Goles > 0, and cumcount
\* numbers the rows of a block from 0
Racha_Con_Gol(goles) ==
  LET goles_binario == [i \in DOMAIN goles |-> RLess(Zero, goles[i])]
      starts(i) == {j \in 1..i : j = 1 \/ goles_binario[j] # goles_binario[j - 1]}
      block(i) == CHOOSE j \in starts(i) : \A k \in starts(i) : k <= j
  IN [i \in DOMAIN goles |-> i - block(i)]

\* calcular_factores_oponente: the factor it returns for oponente_actual is
\* the one of the last row against that opponent, from the rows against it
\* dated before that row
calcular_factores_oponente(df_jugador, oponente_actual) ==
  LET contra == {i \in DOMAIN df_jugador :
                   df_jugador[i].Oponente_Estandarizado = oponente_actual}
      ultimo == CHOOSE i \in contra : \A j \in contra : j <= i
      hist_directo ==
        SelectSeq(df_jugador,
                  LAMBDA r : /\ r.Oponente_Estandarizado = oponente_actual
                             /\ r.Fecha < df_jugador[ultimo].Fecha)
      media == RAdd(Mean(Goles(df_jugador)), One)
      factor == RDiv(RAdd(Mean(Goles(hist_directo)), One), media)
      hist_reciente == LastN(hist_directo, Min(3, Len(hist_directo)))
      factor_reciente == RDiv(RAdd(Mean(Goles(hist_reciente)), One), media)
  IN IF contra = {} THEN One
     ELSE IF hist_directo = << >> THEN One
     ELSE RAdd(RMul(Tenths(7), factor), RMul(Tenths(3), factor_reciente))

\* the pseudo-rows of the lstm strategy: a copy of the current match_data
\* with the entry's date and prediction
pseudo_rows_lstm(context, match_data) ==
  [i \in DOMAIN context |->
     [Fecha |-> context[i].match_data.Fecha.dia,
      Goles |-> context[i].prediction,
      Oponente_Estandarizado |-> match_data.Oponente_Estandarizado,
      Sede_Local |-> match_data.Sede_Local]]

\* the pseudo-rows of the sarimax and poisson strategies: the entry's own
\* match data with its prediction
pseudo_rows(context) ==
  [i \in DOMAIN context |->
     [Fecha |-> context[i].match_data.Fecha.dia,
      Goles |-> context[i].prediction,
      Oponente_Estandarizado |->
        context[i].match_data.Oponente_Estandarizado,
      Sede_Local |-> context[i].match_data.Sede_Local]]

\* crear_secuencias without labels: one window of the last ventana rows, or
\* no window when there are fewer rows
crear_secuencias(df, ventana) ==
  IF Len(df) >= ventana THEN <<LastN(df, ventana)>> ELSE << >>

\* a slip that asks for one row fewer than the window
enough_rows_short_by_one(rows, window_size) == rows >= window_size - 1

\* line 703: len(df_work) >= window_size
enough_rows(rows, window_size) == rows >= window_size

insufficient_data == "Datos insuficientes"

prepare_lstm_features(model_data, history_df, match_data, context) ==
  LET window_size ==
        Get(Get(model_data, "modelo_config", << >>), "ventana",
            DEFAULT_WINDOW_SIZE)
      df_work ==
        sort_values(history_df
                      \o pseudo_rows_lstm(context, match_data))
      factor_oponente ==
        calcular_factores_oponente(df_work, match_data.Oponente_Estandarizado)
      es_finde ==
        IF match_data.Fecha.tipo = "datetime" /\ match_data.Fecha.weekday >= 4
        THEN 1 ELSE 0
      written ==
        SetKey(SetKey(match_data, "Factor_Oponente", factor_oponente),
               "Es_FinDeSemana", es_finde)
  IN IF ~Get(model_data, "disponible", FALSE)
     THEN [match_data |-> match_data,
           data |-> [error |-> Get(model_data, "error",
                                   Some("Modelo LSTM no disponible")),
                     disponible |-> FALSE]]
     ELSE [match_data |-> written,
           data |->
             IF enough_rows(Len(df_work), window_size)
             THEN [X |-> crear_secuencias(df_work, window_size),
                   match_data |-> written,
                   historical_data |-> df_work,
                   disponible |-> TRUE]
             ELSE [error |-> Some(insufficient_data), disponible |-> FALSE]]

\* lines 809-850 and 1012-1053: Tiros_a_puerta, Tiros_totales and Minutos
\* are estimated when the request gives none; the CSV has no such columns,
\* so they get the defaults
estimar_caracteristicas(match_data) ==
  LET defaults == [Tiros_a_puerta |-> Tenths(15),
                   Tiros_totales |-> Tenths(25),
                   Minutos |-> Whole(90)]
  IN [k \in DOMAIN match_data \cup DOMAIN defaults |->
        IF k \in DOMAIN match_data THEN match_data[k] ELSE defaults[k]]

prepare_sarimax_features(model_data, history_df, match_data, context) ==
  LET config == Get(model_data, "modelo_config", << >>)
      df_work == sort_values(history_df \o pseudo_rows(context))
      goles == Goles(df_work)
      oponente == match_data.Oponente_Estandarizado
      tendencia ==
        IF Len(df_work) >= 5 /\ RLess(Zero, Mean(goles))
        THEN RDiv(Mean(LastN(goles, 5)), Mean(goles)) ELSE One
      hist_vs_opponent ==
        SelectSeq(df_work, LAMBDA r : r.Oponente_Estandarizado = oponente)
      promedio ==
        IF hist_vs_opponent # << >> THEN Mean(Goles(hist_vs_opponent))
        ELSE IF df_work # << >> THEN Mean(goles) ELSE Zero
      written ==
        SetKey(SetKey(SetKey(estimar_caracteristicas(match_data),
                             "Factor_Oponente",
                             calcular_factores_oponente(df_work, oponente)),
                      "Tendencia_Reciente", tendencia),
               "Promedio_Historico_vs_Oponente", promedio)
      variables_exogenas == Get(config, "variables_exogenas", << >>)
      exog_data ==
        [var \in SeqToSet(variables_exogenas) |->
           IF var \in DOMAIN written THEN written[var] ELSE Zero]
  IN IF ~Get(model_data, "disponible", FALSE)
     THEN [match_data |-> match_data,
           data |-> [error |-> Get(model_data, "error",
                                   Some("Modelo SARIMAX no disponible")),
                     disponible |-> FALSE]]
     ELSE IF ~Get(config, "usa_exogenas", FALSE)
     THEN [match_data |-> match_data,
           data |-> [usa_exogenas |-> FALSE,
                     match_data |-> match_data,
                     historical_data |-> history_df,
                     disponible |-> TRUE]]
     ELSE [match_data |-> written,
           data |-> [usa_exogenas |-> TRUE,
                     exog |-> exog_data,
                     match_data |-> written,
                     historical_data |-> df_work,
                     disponible |-> TRUE]]

\* the slope linregress gives for five values at x = 0..4
slope5(y) ==
  RDiv(SumSeq([i \in 1..5 |-> RMul(Whole(i - 3), y[i])]), Whole(10))

\* f"Oponente_{opponent_std}" (line 1227)
oponente_col(opponent_std) ==
  IF opponent_std = "A" THEN "Oponente_A"
  ELSE IF opponent_std = "B" THEN "Oponente_B"
  ELSE "Oponente_C"

\* the columns of the working history, with the rolling means of 1094-1095
df_work_columns ==
  {"Jugador", "Fecha", "Goles", "Oponente_Estandarizado", "Sede_Local",
   "Goles_Prom_3", "Goles_Prom_5", "Factor_Oponente"}
rolling_means == [Goles_Prom_3 |-> 3, Goles_Prom_5 |-> 5]
other_means == [Goles_Prom_7 |-> 7, Goles_Prom_10 |-> 10]
norm_terms == {"Tiros_a_puerta_norm", "Tiros_totales_norm", "Minutos_norm"}

\* lines 1120-1224, the value the loop gives a term of the formula.  The
\* bundles carry no normalization_info and the history has no column of
\* shots or minutes, so a normalized term of those, its base being in
\* match_data by then, gets 0 (1156-1157)
formula_var(feature, match_data, df_work) ==
  IF feature \in DOMAIN match_data THEN match_data[feature]
  ELSE IF feature \in DOMAIN rolling_means
  THEN IF df_work # << >>
       THEN Mean(LastN(Goles(df_work),
                       Min(rolling_means[feature], Len(df_work))))
       ELSE Tenths(3)
  ELSE IF feature \in DOMAIN other_means
  THEN IF df_work = << >> THEN Tenths(3)
       ELSE IF Len(df_work) >= other_means[feature]
       THEN Mean(LastN(Goles(df_work), other_means[feature]))
       ELSE Mean(Goles(df_work))
  ELSE IF feature \in norm_terms THEN Zero
  ELSE IF feature \in df_work_columns /\ df_work # << >>
  THEN Get(df_work[Len(df_work)], feature, Zero)
  ELSE IF feature = "Sede_Visitante"
  THEN IF Get(match_data, "Es_Local", FALSE) THEN 0 ELSE 1
  ELSE Zero

\* a slip that gives a value only to the terms that have a source
formula_vars_resolved_only(formula_terms, match_data, df_work) ==
  LET resolved ==
        DOMAIN match_data \cup DOMAIN rolling_means \cup DOMAIN other_means
          \cup norm_terms \cup df_work_columns \cup {"Sede_Visitante"}
          \cup {oponente_col(match_data.Oponente_Estandarizado)}
  IN [term \in SeqToSet(formula_terms) \cap resolved |->
        IF term = oponente_col(match_data.Oponente_Estandarizado) THEN 1
        ELSE formula_var(term, match_data, df_work)]

\* lines 1117-1239: a value for every term of the formula, 1 for the one-hot
\* term of the current opponent (1227-1229); the loop leaves no term
\* without a value, so the defaulting of 1232-1239 finds nothing to do
formula_vars(formula_terms, match_data, df_work) ==
  [term \in SeqToSet(formula_terms) |->
     IF term = oponente_col(match_data.Oponente_Estandarizado) THEN 1
     ELSE formula_var(term, match_data, df_work)]

prepare_poisson_features(model_data, history_df, match_data, context) ==
  LET config == Get(model_data, "modelo_config", << >>)
      df_work == sort_values(history_df \o pseudo_rows(context))
      tendencia ==
        IF Len(df_work) >= 5 THEN slope5(LastN(Goles(df_work), 5)) ELSE Zero
      written ==
        SetKey(SetKey(estimar_caracteristicas(match_data),
                      "Factor_Oponente",
                      calcular_factores_oponente(
                        df_work, match_data.Oponente_Estandarizado)),
               "Tendencia", tendencia)
      formula_terms == Get(config, "features", << >>)
  IN IF ~Get(model_data, "disponible", FALSE)
     THEN [match_data |-> match_data,
           data |-> [error |-> Get(model_data, "error",
                                   Some("Modelo Poisson no disponible")),
                     disponible |-> FALSE]]
     ELSE [match_data |-> written,
           data |-> [formula_vars |->
                       formula_vars(formula_terms, written, df_work),
                     formula_terms |-> formula_terms,
                     match_data |-> written,
                     historical_data |-> df_work,
                     disponible |-> TRUE]]

\* PredictionEngine.prepare_prediction_features, given the player's slice
prepare_prediction_features(model_data, history_df, match_data, context, model_type) ==
  IF model_type = "lstm"
  THEN prepare_lstm_features(model_data, history_df, match_data,
                             context)
  ELSE IF model_type = "sarimax"
  THEN prepare_sarimax_features(model_data, history_df, match_data,
                                context)
  ELSE prepare_poisson_features(model_data, history_df, match_data,
                                context)

(***************************************************************************)
(* PredictionEngine.preprocess_data                                        *)
(***************************************************************************)
preprocess_data(player_data, model_type) ==
  IF ~Get(player_data, "disponible", TRUE) THEN player_data
  ELSE IF model_type = "lstm"
  THEN IF "X" \in DOMAIN player_data
       THEN [X |-> player_data.X, disponible |-> TRUE]
       ELSE [disponible |-> FALSE,
             error |-> Some("Datos historicos insuficientes")]
  ELSE IF model_type = "sarimax"
  THEN IF "exog" \in DOMAIN player_data
       THEN [exog |-> player_data.exog, disponible |-> TRUE]
       ELSE [disponible |-> Get(player_data, "disponible", TRUE)]
  ELSE IF "formula_vars" \in DOMAIN player_data
       THEN [formula_vars |-> player_data.formula_vars, disponible |-> TRUE]
       ELSE [disponible |-> FALSE,
             error |-> Some("Variables de formula no disponibles")]

(***************************************************************************)
(* The inference adapters.  env is what the call meets outside the code:   *)
(*   fault     where something raises: "none", "features", "preprocess",   *)
(*             "adapter" (in the adapter, outside its try) or "model" (in  *)
(*             the underlying model's predict or forecast)                 *)
(*   output    what the underlying model computes for the input            *)
(*   round_up  the draw of redondeo_probabilistico_mejorado                *)
(*   draw      the mode of the ten np.random.poisson draws                 *)
(*   pmf       poisson.pmf at that mode                                    *)
(***************************************************************************)
Env(fault, output, round_up, draw, pmf) ==
  [fault |-> fault, output |-> output, round_up |-> round_up,
   draw |-> draw, pmf |-> pmf]

\* a slip that lets a negative estimate through
non_negative_unclamped(pred) == pred

\* "if pred < 0: pred = 0", max(0, pred_val), max(0, lambda_pred)
non_negative(pred) == RMax(Zero, pred)

adapter_error(result, error) == SetKey(result, "error", Some(error))

\* prediction, confidence and raw_prediction of lstm and sarimax
rounded_prediction(result, pred, round_up, model_type) ==
  LET pred_redondeada == redondeo_probabilistico_mejorado(pred, round_up)
      filled ==
        [prediction |-> Some(pred_redondeada),
         confidence |->
           Some(RSub(One, RAbs(RSub(pred, Whole(pred_redondeada))))),
         raw_prediction |-> Some(pred),
         disponible |-> TRUE,
         metadata |-> [model_type |-> model_type]]
  IN [k \in DOMAIN result \cup DOMAIN filled |->
        IF k \in DOMAIN filled THEN filled[k] ELSE result[k]]

\* The Keras model answers the same for the same input, so the mean of its
\* n_predicciones clamped answers is the clamped answer.  Without a scaler
\* n_steps is never bound, and the log line of the shape check (the model
\* has an input_shape) raises NameError inside the try; so does an X that
\* holds no window, whose shape cannot be unpacked.
predict_lstm(model_data, processed_data, tf, env) ==
  LET result == [prediction |-> None, confidence |-> None, metadata |-> << >>,
                 disponible |-> FALSE, raw_prediction |-> None]
      has_X == "X" \in DOMAIN processed_data
  IN IF ~tf
     THEN adapter_error(result, "TensorFlow no esta disponible")
     ELSE IF \/ ~Get(processed_data, "disponible", TRUE)
             \/ "error" \in DOMAIN processed_data
     THEN adapter_error(result,
            Get(processed_data, "error",
                Some("Datos no disponibles para LSTM"))[1])
     ELSE IF Get(model_data, "modelo_keras", FALSE) /\ has_X
     THEN IF \/ ~Get(model_data, "scaler", FALSE)
             \/ processed_data.X = << >>
             \/ env.fault = "model"
          THEN adapter_error(result, "Error en prediccion LSTM")
          ELSE rounded_prediction(result, non_negative(env.output),
                                  env.round_up, "LSTM")
     ELSE IF Get(model_data, "modelo_entrenado", FALSE) /\ has_X
     THEN IF processed_data.X = << >> \/ env.fault = "model"
          THEN adapter_error(result, "Error en prediccion LSTM")
          ELSE rounded_prediction(result, non_negative(env.output),
                                  env.round_up, "LSTM")
     ELSE adapter_error(result, "No hay modelo LSTM valido disponible")

predict_sarimax(model_data, processed_data, env) ==
  LET result == [prediction |-> None, confidence |-> None, metadata |-> << >>,
                 disponible |-> FALSE]
  IN IF \/ ~Get(processed_data, "disponible", TRUE)
        \/ "error" \in DOMAIN processed_data
     THEN adapter_error(result,
            Get(processed_data, "error",
                Some("Datos no disponibles para SARIMAX"))[1])
     ELSE IF Get(model_data, "modelo_entrenado", FALSE)
     THEN IF env.fault = "model"
          THEN adapter_error(result, "Error en prediccion SARIMAX")
          ELSE rounded_prediction(result, non_negative(env.output),
                                  env.round_up, "SARIMAX")
     ELSE adapter_error(result, "Modelo SARIMAX no disponible")

\* lambda is clamped to [0, 5]; the prediction is the mode of the draws, the
\* confidence the Poisson probability of that mode.  With lambda = 0 every
\* draw is 0 and its probability is 1.
predict_poisson(model_data, processed_data, env) ==
  LET result == [prediction |-> None, confidence |-> None, metadata |-> << >>,
                 probability_distribution |-> << >>, disponible |-> FALSE]
      lambda_pred == RMin(non_negative(env.output), Whole(5))
      pred_final == IF lambda_pred = Zero THEN 0 ELSE env.draw
      confianza == IF lambda_pred = Zero THEN One ELSE env.pmf
      filled ==
        [prediction |-> Some(pred_final),
         confidence |-> Some(confianza),
         raw_prediction |-> Some(lambda_pred),
         disponible |-> TRUE,
         metadata |-> [model_type |-> "Poisson"]]
  IN IF \/ ~Get(processed_data, "disponible", TRUE)
        \/ "error" \in DOMAIN processed_data
     THEN adapter_error(result,
            Get(processed_data, "error",
                Some("Datos no disponibles para Poisson"))[1])
     ELSE IF /\ Get(model_data, "modelo_entrenado", FALSE)
             /\ "formula_vars" \in DOMAIN processed_data
     THEN IF env.fault = "model"
          THEN adapter_error(result, "Error en prediccion Poisson")
          ELSE [k \in DOMAIN result \cup DOMAIN filled |->
                  IF k \in DOMAIN filled THEN filled[k] ELSE result[k]]
     ELSE adapter_error(result,
            "Modelo Poisson no disponible o datos insuficientes")

(***************************************************************************)
(* PredictionEngine.predict_with_model.  st is the engine and what is      *)
(* around it: [tf, storage, cache, hist, contexts, log, reads], reads      *)
(* counting the reads of the CSV file during the call.  The outcome is     *)
(* the engine after the call, the caller's match_data after the call, the  *)
(* result returned, what prepare_prediction_features returned (seen, None  *)
(* when it was not reached) and the stage that failed ("none" when the     *)
(* result is available).                                                   *)
(***************************************************************************)
Outcome(st, match_data, result, seen, stage) ==
  [st |-> st, match_data |-> match_data, result |-> result, seen |-> seen,
   stage |-> stage]

unavailable_result(error) ==
  [error |-> Some(error), prediction |-> None, confidence |-> None,
   disponible |-> FALSE]

\* a slip that lets the exception go on to the caller
predict_with_model_reraise(e) == [exception |-> e]

\* lines 1439-1446: except Exception as e
predict_with_model_except(e) == unavailable_result("Error en prediccion")

\* a slip that returns the result and leaves the context alone
predict_with_model_return_only(st, player_name, prepared, result) ==
  Outcome(st, prepared.match_data, result, Some(prepared.data),
          IF Get(result, "disponible", FALSE) THEN "none" ELSE "model")

\* lines 1429-1437: the result goes back, and into the context when it is
\* available and carries raw_prediction
predict_with_model_return(st, player_name, prepared, result) ==
  IF Get(result, "disponible", FALSE) /\ "raw_prediction" \in DOMAIN result
  THEN Outcome([st EXCEPT
                  !.contexts = add_prediction(@, player_name,
                                              prepared.match_data,
                                              result.raw_prediction[1]),
                  !.log = log_prediction(@, player_name, prepared.match_data,
                                         result.raw_prediction[1])],
               prepared.match_data, result, Some(prepared.data), "none")
  ELSE Outcome(st, prepared.match_data, result, Some(prepared.data), "model")

\* lines 1419-1427: the adapter of the kind
predict_with_kind(model_type, model_data, prediction_input, tf, env) ==
  IF model_type = "lstm"
  THEN predict_lstm(model_data, prediction_input, tf, env)
  ELSE IF model_type = "sarimax"
  THEN predict_sarimax(model_data, prediction_input, env)
  ELSE predict_poisson(model_data, prediction_input, env)

\* lines 1410-1427: from the preprocessed input on
predict_with_model_input(st, player_name, model_type, env, model_data, prepared, prediction_input) ==
  IF \/ ~Get(prediction_input, "disponible", TRUE)
     \/ "error" \in DOMAIN prediction_input
  THEN Outcome(st, prepared.match_data,
               unavailable_result(
                 Get(prediction_input, "error",
                     Some("Error al preprocesar datos"))[1]),
               Some(prepared.data), "preprocess")
  ELSE IF env.fault = "adapter"
  THEN Outcome(st, prepared.match_data, predict_with_model_except("adapter"),
               Some(prepared.data), "adapter")
  ELSE predict_with_model_return(
         st, player_name, prepared,
         predict_with_kind(model_type, model_data, prediction_input, st.tf,
                           env))

\* lines 1399-1408: from the prepared features on
predict_with_model_features(st, player_name, model_type, env, model_data, prepared) ==
  IF \/ ~Get(prepared.data, "disponible", TRUE)
     \/ "error" \in DOMAIN prepared.data
  THEN Outcome(st, prepared.match_data,
               unavailable_result(
                 Get(prepared.data, "error",
                     Some("Error al preparar datos"))[1]),
               Some(prepared.data), "features")
  ELSE IF env.fault = "preprocess"
  THEN Outcome(st, prepared.match_data,
               predict_with_model_except("preprocess_data"),
               Some(prepared.data), "preprocess")
  ELSE predict_with_model_input(
         st, player_name, model_type, env, model_data, prepared,
         preprocess_data(prepared.data, model_type))

\* a slip that reads the file on every call
load_data_always_reads(historical_data_now, csv) ==
  [historical_data |-> Some(HISTORICAL_DATA_FILE), reads |-> 1]

\* PredictionEngine.load_data: the table, read from the CSV when the engine
\* holds none; reads is the number of times the call read the file, and
\* load_historical_data lets the exception of a failed read go on
load_data(historical_data_now, csv) ==
  IF historical_data_now # None
  THEN [historical_data |-> historical_data_now, reads |-> 0]
  ELSE IF csv
  THEN [historical_data |-> Some(HISTORICAL_DATA_FILE), reads |-> 1]
  ELSE [historical_data |-> None, reads |-> 1,
        exception |-> "load_historical_data"]

\* lines 1394-1397: prepare_prediction_features, which begins with
\* get_player_historical_data and so with load_data
predict_with_model_data(st, player_name, model_type, match_data, env, model_data, data) ==
  IF "exception" \in DOMAIN data
  THEN Outcome([st EXCEPT !.reads = @ + data.reads], match_data,
               predict_with_model_except("load_historical_data"),
               None, "data")
  ELSE IF env.fault = "features"
  THEN Outcome([st EXCEPT !.hist = data.historical_data,
                          !.reads = @ + data.reads],
               match_data,
               predict_with_model_except("prepare_prediction_features"),
               None, "features")
  ELSE predict_with_model_features(
         [st EXCEPT !.hist = data.historical_data, !.reads = @ + data.reads],
         player_name, model_type, env, model_data,
         prepare_prediction_features(
           model_data,
           get_player_historical_data(data.historical_data[1], player_name),
           match_data, get_context(st.contexts, player_name), model_type))

\* lines 1384-1391: from the loaded bundle on
predict_with_model_bundle(st, player_name, model_type, match_data, env, model_data) ==
  IF "exception" \in DOMAIN model_data
  THEN Outcome(st, match_data, predict_with_model_except("load_model"),
               None, "bundle")
  ELSE IF ~Get(model_data, "disponible", FALSE)
  THEN Outcome(st, match_data,
               unavailable_result(
                 Get(model_data, "error", Some("Modelo no disponible"))[1]),
               None, "bundle")
  ELSE predict_with_model_data(st, player_name, model_type, match_data, env,
                               model_data, load_data(st.hist, st.storage.csv))

\* line 1382: the bundle comes from load_model, which caches it
predict_with_model_loaded(st, player_name, model_type, match_data, env, loaded) ==
  predict_with_model_bundle([st EXCEPT !.cache = loaded.cache], player_name,
                            model_type, match_data, env, loaded.bundle)

predict_with_model(st, player_name, model_type, match_data, env) ==
  predict_with_model_loaded(
    st, player_name, model_type, match_data, env,
    load_model(st.cache, model_type, player_name, st.storage.files, st.tf))

(***************************************************************************)
(* PredictionEngine.ensemble_predictions: the three calls in the order     *)
(* lstm, sarimax, poisson on the one match_data, then ensemble_finish.     *)
(* envs gives the env of each call.                                        *)
(***************************************************************************)
\* the except clause around each call
ensemble_except(call, error) ==
  IF "exception" \in DOMAIN call.result
  THEN [call EXCEPT !.result =
          [error |-> Some(error), prediction |-> None, confidence |-> None,
           raw_prediction |-> None, disponible |-> FALSE]]
  ELSE call

\* what the request returns, and the engine it leaves
ensemble_return(player_name, lstm, sarimax, poisson, out) ==
  [st |->
     [poisson.st EXCEPT
        !.contexts = out.contexts,
        !.log = IF out.added
                THEN log_prediction(@, player_name, poisson.match_data,
                                    out.result.raw_prediction[1])
                ELSE @],
   match_data |-> poisson.match_data,
   result |-> out.result,
   model_predictions |->
     [lstm |-> lstm.result, sarimax |-> sarimax.result,
      poisson |-> poisson.result],
   seen |-> [lstm |-> lstm.seen, sarimax |-> sarimax.seen,
             poisson |-> poisson.seen],
   stage |-> [lstm |-> lstm.stage, sarimax |-> sarimax.stage,
              poisson |-> poisson.stage]]

\* lines 1986-2059 on the three results
ensemble_of_three(player_name, weights_arg, round_up, lstm, sarimax, poisson) ==
  ensemble_return(
    player_name, lstm, sarimax, poisson,
    ensemble_finish(poisson.st.contexts, player_name, poisson.match_data,
                    ensemble_weights(weights_arg, poisson.st.tf),
                    [lstm |-> lstm.result, sarimax |-> sarimax.result,
                     poisson |-> poisson.result],
                    round_up))

\* lines 1971-1984: the poisson call
ensemble_after_sarimax(player_name, weights_arg, envs, round_up, lstm, sarimax) ==
  ensemble_of_three(
    player_name, weights_arg, round_up, lstm, sarimax,
    ensemble_except(
      predict_with_model(sarimax.st, player_name, "poisson",
                         sarimax.match_data, envs.poisson),
      "Error en prediccion Poisson"))

\* lines 1956-1969: the sarimax call
ensemble_after_lstm(player_name, weights_arg, envs, round_up, lstm) ==
  ensemble_after_sarimax(
    player_name, weights_arg, envs, round_up, lstm,
    ensemble_except(
      predict_with_model(lstm.st, player_name, "sarimax", lstm.match_data,
                         envs.sarimax),
      "Error en prediccion SARIMAX"))

\* lines 1915-1953: the lstm call, made only with TensorFlow
ensemble_predictions(st, player_name, match_data, weights_arg, envs, round_up) ==
  ensemble_after_lstm(
    player_name, weights_arg, envs, round_up,
    IF st.tf
    THEN ensemble_except(
           predict_with_model(st, player_name, "lstm", match_data, envs.lstm),
           "Error en prediccion LSTM")
    ELSE Outcome(st, match_data, tf_unavailable_result, None, "skipped"))

(***************************************************************************)
(* SpecEnsemble: the combiner on drawn per-kind results, as the test suite *)
(* drives it (tests/test_models/test_ensemble.py): one direct call of      *)
(* calculate_prediction_ensemble, and one call of ensemble_predictions     *)
(* with predict_with_model replaced by a stub that returns the drawn       *)
(* result of each kind.  An available result always carries a raw          *)
(* estimate and a confidence, as every adapter's does.                     *)
(***************************************************************************)
RawVals == {Tenths(8), Tenths(12), Tenths(13)}
             \cup {Whole(k) : k \in 0..MaxWholeRaw}
ConfVals == {Tenths(7), Tenths(8), One}

UnavailableStub ==
  [disponible |-> FALSE, error |-> Some("Modelo no disponible"),
   raw_prediction |-> None, prediction |-> None, confidence |-> None]
AvailableStub(raw, conf) ==
  [disponible |-> TRUE, raw_prediction |-> Some(raw),
   prediction |-> Some(Floor(raw)), confidence |-> Some(conf)]
StubResults ==
  {UnavailableStub} \cup {AvailableStub(r, c) : r \in RawVals, c \in ConfVals}

\* None (the configured MODEL_WEIGHTS), weights favouring one kind, weights
\* that are all zero, and a map that leaves one kind out
WeightArgs ==
  {None,
   Some([lstm |-> Tenths(1), sarimax |-> Tenths(8), poisson |-> Tenths(1)]),
   Some([lstm |-> Zero, sarimax |-> Zero, poisson |-> Zero]),
   Some([lstm |-> Tenths(4), poisson |-> Tenths(3)])}

StubFixture == [Oponente_Estandarizado |-> "A", Sede_Local |-> 1]

NoResponse ==
  [calculate |-> None, ensemble |-> None, predict |-> None, call |-> None]
NoContexts == [p \in Players |-> << >>]

InitEnsemble ==
  /\ has_tf = TRUE
  /\ storage = Installed
  /\ handled = 0
  /\ model_cache = << >>
  /\ historical_data = None
  /\ prediction_context = NoContexts
  /\ appended = NoContexts
  /\ request \in [predictions : [Kinds -> StubResults], weights : WeightArgs]
  /\ response = NoResponse

CallCalculate ==
  /\ response.calculate = None
  /\ \E round_up \in BOOLEAN :
       response' =
         [response EXCEPT !.calculate =
            Some(calculate_prediction_ensemble(request.predictions,
                                               request.weights, round_up))]
  /\ UNCHANGED <<has_tf, storage, model_cache, historical_data,
                 prediction_context, appended, handled, request>>

CallEnsembleStubbed ==
  /\ response.ensemble = None
  /\ \E round_up \in BOOLEAN :
       LET model_predictions ==
             [m \in Kinds |->
                IF m = "lstm" /\ ~has_tf THEN tf_unavailable_result
                ELSE request.predictions[m]]
           weights == ensemble_weights(request.weights, has_tf)
           out == ensemble_finish(prediction_context, "p1", StubFixture,
                                  weights, model_predictions, round_up)
       IN /\ prediction_context' = out.contexts
          /\ appended' =
               IF out.added
               THEN log_prediction(appended, "p1", StubFixture,
                                   out.result.raw_prediction[1])
               ELSE appended
          /\ response' = [response EXCEPT !.ensemble = Some(out.result)]
  /\ UNCHANGED <<has_tf, storage, model_cache, historical_data, handled,
                 request>>

NextEnsemble == CallCalculate \/ CallEnsembleStubbed

SpecEnsemble == InitEnsemble /\ [][NextEnsemble]_vars

(***************************************************************************)
(* Claims about the combiner, checked under SpecEnsemble.                  *)
(***************************************************************************)
\* |a - b| < 1e-4, the tolerance the tests use
Close(a, b) == RLess(RAbs(RSub(a, b)), Rat(1, 10000))

SuppliedWeights ==
  IF request.weights = None THEN MODEL_WEIGHTS ELSE request.weights[1]
DrawnAvailable == available_predictions(request.predictions)
DrawnRaw(m) == request.predictions[m].raw_prediction[1]

\* C1: with all three results available and supplied weights that sum to 1,
\* the combined raw estimate is the sum of supplied weight x raw estimate,
\* whatever the confidences are.
C1_RawIsSuppliedWeightedSum ==
  (/\ response.calculate # None
   /\ DrawnAvailable = Kinds
   /\ DOMAIN SuppliedWeights = Kinds
   /\ SumOver(Kinds, SuppliedWeights) = One)
  => Close(response.calculate[1].raw_prediction[1],
           SumOver(Kinds, [m \in Kinds |->
                             RMul(SuppliedWeights[m], DrawnRaw(m))]))

\* C2: with some results unavailable, the effective weight of an available
\* model is its configured weight over the configured weights of the
\* available models, and the raw estimate is the sum of effective weight x raw.
StaticWeight(m) ==
  RDiv(SuppliedWeights[m],
       SumOver(DrawnAvailable, [k \in DrawnAvailable |-> SuppliedWeights[k]]))

C2_StaticRenormalisation ==
  (/\ response.calculate # None
   /\ DrawnAvailable # {}
   /\ DrawnAvailable # Kinds
   /\ DrawnAvailable \subseteq DOMAIN SuppliedWeights
   /\ RLess(Zero, SumOver(DrawnAvailable,
                          [k \in DrawnAvailable |-> SuppliedWeights[k]])))
  => /\ \A m \in DrawnAvailable :
          Close(response.calculate[1].dynamic_weights[m], StaticWeight(m))
     /\ Close(response.calculate[1].raw_prediction[1],
              SumOver(DrawnAvailable,
                      [m \in DrawnAvailable |->
                         RMul(StaticWeight(m), DrawnRaw(m))]))

\* C4: combining results none of which is available gives disponible false,
\* null prediction, confidence and raw estimate, and a non-empty error, from
\* calculate_prediction_ensemble and from ensemble_predictions alike.
Starved(res, prediction_key) ==
  /\ res.disponible = FALSE
  /\ res[prediction_key] = None
  /\ res.confidence = None
  /\ res.raw_prediction = None
  /\ "error" \in DOMAIN res
  /\ res.error # None
  /\ res.error[1] # ""

NoneAvailable ==
  \A m \in Kinds : ~Get(request.predictions[m], "disponible", FALSE)

C4_StarvationIsUnavailable ==
  NoneAvailable =>
    /\ response.calculate # None
         => Starved(response.calculate[1], "prediction")
    /\ response.ensemble # None
         => Starved(response.ensemble[1], "ensemble_prediction")

C4_Witness ==
  /\ NoneAvailable
  /\ response.calculate # None
  /\ response.ensemble # None

\* C5: the effective weights the combiner reports have an entry for exactly
\* the available models and sum to 1, whatever the weight map.
C5_EffectiveWeightsSumToOne ==
  (response.calculate # None /\ response.calculate[1].disponible)
  => LET dw == response.calculate[1].dynamic_weights
     IN /\ DOMAIN dw = DrawnAvailable
        /\ SumOver(DOMAIN dw, dw) = One

\* two of three models available, under a map that leaves one of them out
C5_Witness ==
  /\ response.calculate # None
  /\ response.calculate[1].disponible
  /\ Cardinality(DrawnAvailable) = 2
  /\ request.weights # None
  /\ ~(DrawnAvailable \subseteq DOMAIN request.weights[1])

\* C20: the integer prediction of calculate_prediction_ensemble is the floor
\* of the raw_prediction it reports (1 for a raw estimate of 1.12 or of 1.7).
C20_PredictionIsFloorOfRaw ==
  (response.calculate # None /\ response.calculate[1].disponible)
  => response.calculate[1].prediction[1]
       = Floor(response.calculate[1].raw_prediction[1])

\* the weight of model m before normalization when a model the map leaves
\* out counts 1.0
AdjustedFromOne(m) ==
  RMul(IF m \in DOMAIN SuppliedWeights THEN SuppliedWeights[m] ELSE One,
       RAdd(Tenths(5), request.predictions[m].confidence[1]))

\* C29: an available model that the supplied weight map leaves out is
\* combined with base weight 1.0: when the weights supplied are not negative
\* its effective weight is its adjusted weight from 1.0 over the sum of the
\* adjusted weights, and is above 0.
C29_UnlistedModelCountsOne ==
  (/\ response.calculate # None
   /\ \A k \in DOMAIN SuppliedWeights : RLeq(Zero, SuppliedWeights[k]))
  => \A m \in DrawnAvailable \ DOMAIN SuppliedWeights :
       /\ RLess(Zero, response.calculate[1].dynamic_weights[m])
       /\ response.calculate[1].dynamic_weights[m] =
            RDiv(AdjustedFromOne(m),
                 SumOver(DrawnAvailable,
                         [k \in DrawnAvailable |-> AdjustedFromOne(k)]))

\* all three models available under a map that leaves sarimax out
C29_Witness ==
  /\ response.calculate # None
  /\ request.weights # None
  /\ DOMAIN request.weights[1] = {"lstm", "poisson"}
  /\ DrawnAvailable = Kinds
  /\ RLess(Tenths(5), response.calculate[1].dynamic_weights.sarimax)

(***************************************************************************)
(* SpecContext: a PredictionContext of its own, given any sequence of      *)
(* add_prediction calls for two players.                                   *)
(***************************************************************************)
ContextPredictions == {Tenths(8), Tenths(13)}

TotalAppended == Len(appended["p1"]) + Len(appended["p2"])

InitContext ==
  /\ has_tf = TRUE
  /\ storage = Installed
  /\ handled = 0
  /\ model_cache = << >>
  /\ historical_data = None
  /\ prediction_context = NoContexts
  /\ appended = NoContexts
  /\ request = None
  /\ response = NoResponse

AddPrediction ==
  /\ TotalAppended < MaxAppends
  /\ \E player_name \in Players, prediction \in ContextPredictions :
       /\ prediction_context' =
            add_prediction(prediction_context, player_name, StubFixture,
                           prediction)
       /\ appended' =
            log_prediction(appended, player_name, StubFixture, prediction)
  /\ UNCHANGED <<has_tf, storage, model_cache, historical_data, handled,
                 request, response>>

NextContext == AddPrediction

SpecContext == InitContext /\ [][NextContext]_vars

\* C6: each player's context holds at most max_context_size entries, and they
\* are the most recent ones given to add_prediction for that player, in the
\* order they were given.
C6_ContextIsMostRecent ==
  \A p \in Players :
    /\ Len(prediction_context[p]) <= max_context_size
    /\ prediction_context[p] =
         LastN(appended[p], Min(max_context_size, Len(appended[p])))

\* more entries than the capacity were appended for one player
C6_Witness ==
  \E p \in Players :
    /\ Len(appended[p]) > max_context_size
    /\ appended[p][1] # appended[p][Len(appended[p])]

(***************************************************************************)
(* The engine under requests.  A request is one call of predict_with_model *)
(* or of ensemble_predictions: no await of either suspends (nothing below  *)
(* them awaits I/O), so a request runs from call to return before the      *)
(* event loop starts another one.  response.call records, for the claims,  *)
(* the call that gave the response: its arguments, the player's context    *)
(* when it began, and per kind called the result, what feature preparation *)
(* returned, the stage that failed and the env.                            *)
(***************************************************************************)
MaxRequests == 3

\* the match_data the routing layer builds for a request with a date
FixtureWeekend ==
  [Oponente_Estandarizado |-> "A", Sede_Local |-> 1,
   Fecha |-> [dia |-> 10, weekday |-> 5, tipo |-> "date"],
   Es_FinDeSemana |-> 1]
FixtureMidweek ==
  [Oponente_Estandarizado |-> "B", Sede_Local |-> 0,
   Fecha |-> [dia |-> 11, weekday |-> 2, tipo |-> "date"],
   Es_FinDeSemana |-> 0]
Fixtures == {FixtureWeekend, FixtureMidweek}

Faults == {"features", "preprocess", "adapter", "model"}
ModelOutputs == {Tenths(-5), Tenths(13), Whole(6)}
NominalOutput ==
  [lstm |-> Tenths(13), sarimax |-> Tenths(8), poisson |-> Tenths(12)]
PoissonDraws == {0, 1, 3}
PmfVals == {Tenths(1), Tenths(3)}

CleanEnvs(model_type, outputs, rounds, draws, pmfs) ==
  IF model_type = "poisson"
  THEN {Env("none", o, FALSE, d, p) : o \in outputs, d \in draws, p \in pmfs}
  ELSE {Env("none", o, r, 0, One) : o \in outputs, r \in rounds}

FaultEnvs(model_type) ==
  {Env(f, NominalOutput[model_type], FALSE, 1, Tenths(3)) : f \in Faults}

\* a request of a session: the model is there and answers its usual value
SessionEnvs(model_type) ==
  CleanEnvs(model_type, {NominalOutput[model_type]}, {TRUE}, {1},
            {Tenths(3)})

PredictEnvs(model_type, rich) ==
  IF rich
  THEN FaultEnvs(model_type)
         \cup CleanEnvs(model_type, ModelOutputs, BOOLEAN, PoissonDraws,
                      PmfVals)
  ELSE SessionEnvs(model_type)

EnsembleEnvs(model_type, rich) ==
  IF rich
  THEN SessionEnvs(model_type)
         \cup {Env("model", NominalOutput[model_type], FALSE, 1, Tenths(3)),
               Env("none", Tenths(-5), TRUE, 1, Tenths(3))}
  ELSE SessionEnvs(model_type)

EngineWeights(rich) ==
  IF rich
  THEN {None,
        Some([lstm |-> Tenths(1), sarimax |-> Tenths(8),
              poisson |-> Tenths(1)]),
        Some([lstm |-> Tenths(-1), sarimax |-> Tenths(8),
              poisson |-> Tenths(1)])}
  ELSE {None}

\* storage in which at most one thing is not as installed
RequestStorages ==
  {Installed, [Installed EXCEPT !.csv = FALSE]}
    \cup {[Installed EXCEPT !.files.lstm = a] : a \in LstmArtifacts}
    \cup {[Installed EXCEPT !.files.sarimax = a] : a \in PickleArtifacts}
    \cup {[Installed EXCEPT !.files.poisson = a] : a \in PickleArtifacts}

Engine ==
  [tf |-> has_tf, storage |-> storage, cache |-> model_cache,
   hist |-> historical_data, contexts |-> prediction_context,
   log |-> appended, reads |-> 0]

Becomes(st) ==
  /\ model_cache' = st.cache
  /\ historical_data' = st.hist
  /\ prediction_context' = st.contexts
  /\ appended' = st.log

InitEngine(storages) ==
  /\ has_tf \in BOOLEAN
  /\ storage \in storages
  /\ model_cache = << >>
  /\ historical_data = None
  /\ prediction_context = NoContexts
  /\ appended = NoContexts
  /\ handled = 0
  /\ request = None
  /\ response = NoResponse

\* the outcome of one call of predict_with_model, in the shape of an
\* ensemble's
single(model_type, out) ==
  [st |-> out.st, match_data |-> out.match_data, result |-> out.result,
   model_predictions |-> [k \in {model_type} |-> out.result],
   seen |-> [k \in {model_type} |-> out.seen],
   stage |-> [k \in {model_type} |-> out.stage]]

\* the request returns: the engine is as the call left it
Returns(op, player_name, match_data, weights, envs, out) ==
  /\ Becomes(out.st)
  /\ response' =
       [NoResponse EXCEPT
          ![op] = Some(out.result),
          !.call =
            Some([op |-> op,
                  player_name |-> player_name,
                  match_data |-> match_data,
                  weights |-> weights,
                  context |-> prediction_context[player_name],
                  results |-> out.model_predictions,
                  seen |-> out.seen,
                  stage |-> out.stage,
                  envs |-> envs,
                  after |-> out.match_data,
                  csv_reads |-> out.st.reads])]

PredictRequest(rich, limit) ==
  /\ handled < limit
  /\ \E player_name \in Players, model_type \in Kinds, match_data \in Fixtures :
       \E env \in PredictEnvs(model_type, rich) :
         Returns("predict", player_name, match_data, None,
                 [k \in {model_type} |-> env],
                 single(model_type,
                        predict_with_model(Engine, player_name, model_type,
                                           match_data, env)))
  /\ handled' = handled + 1
  /\ UNCHANGED <<has_tf, storage, request>>

EnsembleRequest(rich, limit) ==
  /\ handled < limit
  /\ \E player_name \in Players, match_data \in Fixtures,
        weights \in EngineWeights(rich), round_up \in BOOLEAN :
       \E lstm \in EnsembleEnvs("lstm", rich),
          sarimax \in EnsembleEnvs("sarimax", rich),
          poisson \in EnsembleEnvs("poisson", rich) :
         Returns("ensemble", player_name, match_data, weights,
                 [lstm |-> lstm, sarimax |-> sarimax, poisson |-> poisson],
                 ensemble_predictions(
                   Engine, player_name, match_data, weights,
                   [lstm |-> lstm, sarimax |-> sarimax, poisson |-> poisson],
                   round_up))
  /\ handled' = handled + 1
  /\ UNCHANGED <<has_tf, storage, request>>

(***************************************************************************)
(* SpecRequest: one request to a newly constructed engine, over every      *)
(* storage of RequestStorages, every fault and every model output.         *)
(***************************************************************************)
InitRequest == InitEngine(RequestStorages)

NextRequest == PredictRequest(TRUE, 1) \/ EnsembleRequest(TRUE, 1)

SpecRequest == InitRequest /\ [][NextRequest]_vars

(***************************************************************************)
(* Spec: a session of up to MaxRequests requests to one engine whose model *)
(* files and CSV are all installed.                                        *)
(***************************************************************************)
Init == InitEngine({Installed})

Next ==
  PredictRequest(FALSE, MaxRequests) \/ EnsembleRequest(FALSE, MaxRequests)

Spec == Init /\ [][Next]_vars

(***************************************************************************)
(* SpecLoader: the ModelLoader alone.  Up to MaxLoaderSteps steps, each a  *)
(* load_model of some kind and player, a clear_cache, or a change of what  *)
(* the model directory holds (files are added, removed or overwritten by   *)
(* whoever trains the models, not by this program).  response.call holds   *)
(* the last call: for load_model its arguments, the bundle returned or the *)
(* exception raised, whether it went to storage, and the cache before it.  *)
(***************************************************************************)
MaxLoaderSteps == 3

LoaderStorages == {st \in RequestStorages : st.csv}

InitLoader == InitEngine(LoaderStorages)

\* a slip that leaves the cache as it is
clear_cache_keeps(cache) == cache

\* ModelLoader.clear_cache
clear_cache(cache) == << >>

LoadModel ==
  /\ handled < MaxLoaderSteps
  /\ \E model_type \in Kinds, player_name \in Players :
       LET loaded == load_model(model_cache, model_type, player_name,
                                storage.files, has_tf)
       IN /\ model_cache' = loaded.cache
          /\ response' =
               [NoResponse EXCEPT
                  !.call = Some([op |-> "load_model",
                                 model_type |-> model_type,
                                 player_name |-> player_name,
                                 bundle |-> loaded.bundle,
                                 read |-> loaded.read,
                                 cache |-> model_cache])]
  /\ handled' = handled + 1
  /\ UNCHANGED <<has_tf, storage, historical_data, prediction_context,
                 appended, request>>

ClearCache ==
  /\ handled < MaxLoaderSteps
  /\ model_cache' = clear_cache(model_cache)
  /\ response' = [NoResponse EXCEPT !.call = Some([op |-> "clear_cache"])]
  /\ handled' = handled + 1
  /\ UNCHANGED <<has_tf, storage, historical_data, prediction_context,
                 appended, request>>

ArtifactsChange ==
  /\ handled < MaxLoaderSteps
  /\ \E changed \in LoaderStorages \ {storage} : storage' = changed
  /\ response' = [NoResponse EXCEPT !.call = Some([op |-> "artifacts"])]
  /\ handled' = handled + 1
  /\ UNCHANGED <<has_tf, model_cache, historical_data, prediction_context,
                 appended, request>>

NextLoader == LoadModel \/ ClearCache \/ ArtifactsChange

SpecLoader == InitLoader /\ [][NextLoader]_vars

(***************************************************************************)
(* Claims about the loader, checked under SpecLoader.                      *)
(***************************************************************************)
Loaded == response.call # None /\ response.call[1].op = "load_model"
LastLoad == response.call[1]

\* C11: for every kind and every state of the artifact storage (files
\* missing, present, or present but not deserializable) load_model returns
\* a bundle or a result with disponible = False and an error message; it
\* never raises.
C11_LoadNeverRaises ==
  Loaded =>
    /\ "exception" \notin DOMAIN LastLoad.bundle
    /\ "disponible" \in DOMAIN LastLoad.bundle
    /\ ~LastLoad.bundle.disponible =>
         Get(LastLoad.bundle, "error", None) \notin {None, Some("")}

\* C12: a load of a (kind, player) whose bundle is in the cache returns
\* that bundle without going to storage and leaves the cache as it is,
\* whatever the model directory holds by then; a load of a pair that is not
\* in the cache goes to storage; after clear_cache the cache is empty.
C12_CacheHitsUntilCleared ==
  /\ Loaded =>
       LET key == cache_key(LastLoad.model_type, LastLoad.player_name)
       IN IF key \in DOMAIN LastLoad.cache
          THEN /\ LastLoad.bundle = LastLoad.cache[key]
               /\ ~LastLoad.read
               /\ model_cache = LastLoad.cache
          ELSE LastLoad.read
  /\ (response.call # None /\ response.call[1].op = "clear_cache") =>
       model_cache = << >>

\* a load answered from the cache with an available bundle although the
\* model directory no longer holds the file
C12_Witness ==
  /\ Loaded
  /\ cache_key(LastLoad.model_type, LastLoad.player_name)
       \in DOMAIN LastLoad.cache
  /\ storage.files[LastLoad.model_type] = "missing"
  /\ LastLoad.bundle.disponible
  /\ ~LastLoad.read

\* the last call was an lstm load that deserialized the pickle and got
\* no Keras model: no H5 file, an H5 file that does not load, or no
\* TensorFlow
PickleWithoutKeras ==
  /\ Loaded
  /\ LastLoad.model_type = "lstm"
  /\ LastLoad.read
  /\ \/ storage.files.lstm \in {"no_h5", "bad_h5", "embedded"}
     \/ storage.files.lstm \in {"full", "no_scaler"} /\ ~has_tf

Refused(bundle) ==
  /\ "disponible" \in DOMAIN bundle
  /\ ~bundle.disponible
  /\ Get(bundle, "error", None) \notin {None, Some("")}

\* C13 as stated: whenever the lstm pickle deserializes but no Keras
\* weights can be loaded, load_model returns a bundle with disponible =
\* False and an error.
C13_NoKerasIsUnavailable ==
  PickleWithoutKeras => Refused(LastLoad.bundle)

\* C13 amended: whenever the lstm pickle deserializes without a
\* modelo_entrenado of its own and no Keras weights can be loaded,
\* load_model returns a bundle with disponible = False and an error.
C13_NoModelAtAllIsUnavailable ==
  (PickleWithoutKeras /\ ~Get(LastLoad.bundle, "modelo_entrenado", FALSE)) =>
    Refused(LastLoad.bundle)

\* the H5 file does not load although TensorFlow is there, and the bundle
\* is refused
C13_Witness ==
  /\ PickleWithoutKeras
  /\ storage.files.lstm = "bad_h5"
  /\ has_tf
  /\ Refused(LastLoad.bundle)

\* C30: the cache holds only bundles with disponible = True, and a load
\* that returns an unavailable result leaves no entry for its (kind, player),
\* so that the next load of the pair goes to storage again.
C30_CacheHoldsOnlyAvailable ==
  /\ \A key \in DOMAIN model_cache : model_cache[key].disponible
  /\ (Loaded /\ "disponible" \in DOMAIN LastLoad.bundle
      /\ ~LastLoad.bundle.disponible)
     => cache_key(LastLoad.model_type, LastLoad.player_name)
          \notin DOMAIN model_cache

(***************************************************************************)
(* The helpers as functions of their arguments: request is the call drawn, *)
(* response.call what it returned.                                         *)
(***************************************************************************)
MaxRows == 3

HistoryPlayers == {"Hugo_Rodallega", "p1"}
HistoryDates == {20221231, 20230101, 20230102}
HistoryRowSet ==
  {Row(j, f, 1, "A", 1) : j \in HistoryPlayers, f \in HistoryDates}

RECURSIVE SeqsUpTo(_, _)
SeqsUpTo(S, n) ==
  IF n = 0 THEN {<< >>}
  ELSE LET shorter == SeqsUpTo(S, n - 1)
       IN shorter \cup {Append(q, x) : q \in {t \in shorter : Len(t) = n - 1},
                                        x \in S}

HistoryCalls ==
  [op : {"get_player_historical_data"},
   data : SeqsUpTo(HistoryRowSet, MaxRows),
   player_name : HistoryPlayers]

\* histories for calcular_factores_oponente: one match a day, and the
\* five-match history of goals 1, 0, 2, 1, 3 against A, B, A, C, B
FactorOpponents == {"A", "B", "C"}
FactorMatches == [Goles : {0, 2}, Oponente : {"A", "B"}]
Dated(matches) ==
  [i \in DOMAIN matches |->
     Row("p1", i, matches[i].Goles, matches[i].Oponente, 1)]
FiveMatches ==
  << Row("p1", 1, 1, "A", 1), Row("p1", 2, 0, "B", 1), Row("p1", 3, 2, "A", 1),
     Row("p1", 4, 1, "C", 1), Row("p1", 5, 3, "B", 1) >>
FactorCalls ==
  [op : {"calcular_factores_oponente"},
   df_jugador : {FiveMatches}
                  \cup {Dated(m) : m \in SeqsUpTo(FactorMatches, MaxRows)},
   oponente_actual : FactorOpponents]

\* names for estandarizar_nombre_equipo: the keys and the values of the
\* table and the unregistered names of the tests
Canonical == {mapeo_equipos[k] : k \in DOMAIN mapeo_equipos}
Unregistered == {"JUNIOR", "  Junior  ", "", "EquipoNoRegistrado"}
NameCalls ==
  [op : {"estandarizar_nombre_equipo"},
   nombre : DOMAIN mapeo_equipos \cup Canonical \cup Unregistered]

\* what a client may send as a model selection: a list of names and, when
\* present, a map from names to weights
SelectionNames == {"lstm", "ensemble", "modelo_inexistente"}
SelectionWeights ==
  {None,
   Some([lstm |-> Tenths(4), sarimax |-> Tenths(3), poisson |-> Tenths(3)]),
   Some([lstm |-> Tenths(4), sarimax |-> Tenths(3),
         modelo_inexistente |-> Tenths(3)])}
SelectionCalls ==
  [op : {"ModelSelectionRequest"},
   models : SeqsUpTo(SelectionNames, MaxRows) \ {<< >>},
   weights : SelectionWeights]

\* goal columns of a working history
GoalColumns ==
  [op : {"Racha_Con_Gol"},
   goles : SeqsUpTo({Whole(0), Whole(1), Whole(2)}, MaxRows)]

\* calls of _prepare_poisson_features with an available bundle: formula
\* terms of every kind the loop tells apart, one of them with no source at
\* all, for a player with a history and for one with none
FormulaVocabulary ==
  {"Sede_Visitante", "Goles_Prom_3", "Goles_Prom_7", "Factor_Oponente",
   "Minutos_norm", "Goles", "Oponente_A", "Oponente_B", "Sin_Fuente"}
PoissonBundle(formula_terms) ==
  [disponible |-> TRUE, modelo_entrenado |-> TRUE,
   modelo_config |-> [tipo_modelo |-> "poisson", features |-> formula_terms]]
PoissonFeatureCalls ==
  [op : {"_prepare_poisson_features"},
   formula_terms : SeqsUpTo(FormulaVocabulary, MaxRows),
   history_df : {<< >>, get_player_historical_data(HISTORICAL_DATA_FILE, "p2")},
   match_data : Fixtures]

HelperCalls ==
  HistoryCalls \cup FactorCalls \cup NameCalls \cup SelectionCalls
    \cup GoalColumns \cup PoissonFeatureCalls

InitHelpers ==
  /\ has_tf = TRUE
  /\ storage = Installed
  /\ handled = 0
  /\ model_cache = << >>
  /\ historical_data = None
  /\ prediction_context = NoContexts
  /\ appended = NoContexts
  /\ request \in HelperCalls
  /\ response = NoResponse

HelperReturns(result) ==
  /\ response.call = None
  /\ response' = [response EXCEPT !.call = Some(result)]
  /\ UNCHANGED <<has_tf, storage, model_cache, historical_data,
                 prediction_context, appended, handled, request>>

CallGetPlayerHistoricalData ==
  /\ request.op = "get_player_historical_data"
  /\ HelperReturns(get_player_historical_data(request.data,
                                              request.player_name))

CallCalcularFactoresOponente ==
  /\ request.op = "calcular_factores_oponente"
  /\ HelperReturns(calcular_factores_oponente(request.df_jugador,
                                              request.oponente_actual))

CallEstandarizarNombreEquipo ==
  /\ request.op = "estandarizar_nombre_equipo"
  /\ HelperReturns(estandarizar_nombre_equipo(request.nombre))

CallModelSelectionRequest ==
  /\ request.op = "ModelSelectionRequest"
  /\ \E schema_generated \in BOOLEAN :
       HelperReturns(ModelSelectionRequest(request.models, request.weights,
                                           schema_generated))

CallRachaConGol ==
  /\ request.op = "Racha_Con_Gol"
  /\ HelperReturns(Racha_Con_Gol(request.goles))

CallPreparePoissonFeatures ==
  /\ request.op = "_prepare_poisson_features"
  /\ HelperReturns(prepare_poisson_features(
                     PoissonBundle(request.formula_terms), request.history_df,
                     request.match_data, << >>).data)

NextHelpers ==
  \/ CallPreparePoissonFeatures
  \/ CallRachaConGol
  \/ CallModelSelectionRequest
  \/ CallGetPlayerHistoricalData
  \/ CallCalcularFactoresOponente
  \/ CallEstandarizarNombreEquipo

SpecHelpers == InitHelpers /\ [][NextHelpers]_vars

HelperCalled(op) == request.op = op /\ response.call # None
HelperResult == response.call[1]

Count(rows, r) == Cardinality({i \in DOMAIN rows : rows[i] = r})

\* the rows of the table the call is to return
Wanted(r) ==
  /\ r.Jugador = request.player_name
  /\ request.player_name = "Hugo_Rodallega" => r.Fecha >= fecha_inicio

\* C15: the rows returned are the player's rows of the table, each as often
\* as the table holds it, in ascending date order, less the rows before
\* 2023-01-01 when the player is Hugo_Rodallega and only then.
C15_PlayerRowsByDate ==
  HelperCalled("get_player_historical_data") =>
    /\ \A r \in HistoryRowSet :
         Count(HelperResult, r) =
           IF Wanted(r) THEN Count(request.data, r) ELSE 0
    /\ \A i, j \in DOMAIN HelperResult :
         i < j => HelperResult[i].Fecha <= HelperResult[j].Fecha

\* a table out of date order that holds a row of Hugo_Rodallega before the
\* cutoff, one after it and a row of another player
C15_Witness ==
  /\ HelperCalled("get_player_historical_data")
  /\ request.player_name = "Hugo_Rodallega"
  /\ request.data = << Row("Hugo_Rodallega", 20230102, 1, "A", 1),
                       Row("p1", 20230101, 1, "A", 1),
                       Row("Hugo_Rodallega", 20221231, 1, "A", 1) >>
  /\ HelperResult = << Row("Hugo_Rodallega", 20230102, 1, "A", 1) >>

\* C17: for the history of goals 1, 0, 2, 1, 3 against A, B, A, C, B and the
\* current opponent A the factor returned is (1.5 + 1) / (1.4 + 1), 1.0417 to
\* four places; it is 1.0 when the history holds no match against the
\* current opponent.
C17_FactorOfPriorMeetings ==
  HelperCalled("calcular_factores_oponente") =>
    /\ (request.df_jugador = FiveMatches /\ request.oponente_actual = "A")
         => Close(HelperResult, RDiv(RAdd(Rat(3, 2), One), RAdd(Rat(7, 5), One)))
    /\ (\A i \in DOMAIN request.df_jugador :
          request.df_jugador[i].Oponente_Estandarizado
            # request.oponente_actual)
         => HelperResult = One

\* C18: standardizing a standardized name changes nothing, every canonical
\* value of the table is returned as it is, and so is every name that is no
\* key of the table, 'JUNIOR' and '  Junior  ' among them.
C18_StandardizeIsIdempotent ==
  HelperCalled("estandarizar_nombre_equipo") =>
    /\ estandarizar_nombre_equipo(HelperResult) = HelperResult
    /\ request.nombre \in Canonical => HelperResult = request.nombre
    /\ request.nombre \notin DOMAIN mapeo_equipos
         => HelperResult = request.nombre
    /\ {"JUNIOR", "  Junior  "} \cap DOMAIN mapeo_equipos = {}

\* an alias was standardized to a canonical name that is no key of the table
C18_Witness ==
  /\ HelperCalled("estandarizar_nombre_equipo")
  /\ request.nombre = "Aguilas Doradas"
  /\ HelperResult = "Rionegro"
  /\ "Rionegro" \notin DOMAIN mapeo_equipos

\* C21: a ModelSelectionRequest that was constructed lists only names among
\* lstm, sarimax, poisson and ensemble, and its weights, when present, have
\* keys only among lstm, sarimax and poisson, whatever the client supplied.
C21_OnlyRecognizedNames ==
  (HelperCalled("ModelSelectionRequest")
   /\ "exception" \notin DOMAIN HelperResult)
  => /\ SeqToSet(HelperResult.models) \subseteq Kinds \cup {"ensemble"}
     /\ HelperResult.weights # None
          => DOMAIN HelperResult.weights[1] \subseteq Kinds

\* the length of the longest block of consecutive rows ending at row i that
\* are alike in having scored or not, row i counted
RunLength(goles, i) ==
  LET scored(j) == RLess(Zero, goles[j])
      alike == {j \in 1..i : \A k \in j..i : scored(k) = scored(i)}
  IN Cardinality(alike)

\* C23: Racha_Con_Gol of a row is the run-length of the block of consecutive
\* matches ending at the row that share its scored / did-not-score state,
\* the row itself counted: goals 1, 1, 0 give streaks 1, 2, 1.
C23_StreakCountsTheRow ==
  HelperCalled("Racha_Con_Gol") =>
    /\ \A i \in DOMAIN request.goles :
         HelperResult[i] = RunLength(request.goles, i)
    /\ request.goles = <<Whole(1), Whole(1), Whole(0)>>
         => HelperResult = <<1, 2, 1>>

\* the terms that no branch of the loop has a source for
NoSource(term, match_data) ==
  \/ term = "Sin_Fuente"
  \/ /\ term \in {"Oponente_A", "Oponente_B"}
     /\ term # oponente_col(match_data.Oponente_Estandarizado)

Called == response.call # None
LastCall == response.call[1]

InUnit(c) == RLeq(Zero, c) /\ RLeq(c, One)
FloorOrNext(prediction, r) == prediction \in {Floor(r), Floor(r) + 1}

\* an available result of the adapter of kind k with raw_prediction >= 0:
\* confidence in [0,1]; the prediction is floor(raw) or floor(raw)+1, or,
\* for the kinds of any_integer, some integer >= 0
AdapterBounds(k, res, any_integer) ==
  (IsAvailable(res) /\ RLeq(Zero, res.raw_prediction[1])) =>
    /\ InUnit(res.confidence[1])
    /\ IF k \in any_integer
       THEN res.prediction[1] \in Nat
       ELSE FloorOrNext(res.prediction[1], res.raw_prediction[1])

NonNegativeWeights(weights_arg) ==
  \/ weights_arg = None
  \/ \A m \in DOMAIN weights_arg[1] : RLeq(Zero, weights_arg[1][m])

\* the combined result of an ensemble request, when available with
\* raw_prediction >= 0
EnsembleBounds(res) ==
  (res.disponible /\ RLeq(Zero, res.raw_prediction[1])) =>
    /\ InUnit(res.confidence[1])
    /\ FloorOrNext(res.ensemble_prediction[1], res.raw_prediction[1])

C7_FailuresAreReturned ==
  response.predict # None =>
    /\ "exception" \notin DOMAIN response.predict[1]
    /\ (\E k \in DOMAIN LastCall.stage : LastCall.stage[k] # "none") =>
         /\ "disponible" \in DOMAIN response.predict[1]
         /\ ~response.predict[1].disponible
         /\ Get(response.predict[1], "error", None) \notin {None, Some("")}

\* the CSV cannot be read: load_historical_data raises, and the caller
\* gets an unavailable result
C7_Witness ==
  /\ response.predict # None
  /\ ~storage.csv
  /\ \E k \in DOMAIN LastCall.stage : LastCall.stage[k] = "data"
  /\ "disponible" \in DOMAIN response.predict[1]
  /\ ~response.predict[1].disponible

ResultShape(res) ==
  IF Get(res, "disponible", FALSE)
  THEN /\ "raw_prediction" \in DOMAIN res
       /\ res.raw_prediction # None
       /\ RLeq(Zero, res.raw_prediction[1])
       /\ Get(res, "prediction", None) # None
       /\ Get(res, "confidence", None) # None
  ELSE /\ Get(res, "prediction", None) = None
       /\ Get(res, "confidence", None) = None
       /\ Get(res, "raw_prediction", None) = None
       /\ Get(res, "error", None) \notin {None, Some("")}

\* C8: a result of predict_with_model or of an adapter with disponible =
\* False has prediction, confidence and raw_prediction null or absent and
\* carries an error string; one with disponible = True has a raw_prediction
\* >= 0 and non-null prediction and confidence.
C8_ResultShape ==
  Called => \A k \in DOMAIN LastCall.results : ResultShape(LastCall.results[k])

\* one request in which a model answered below zero and its result is
\* available with raw_prediction 0, and another kind's result is unavailable
C8_Witness ==
  /\ Called
  /\ \E k \in DOMAIN LastCall.results :
       /\ IsAvailable(LastCall.results[k])
       /\ RLess(LastCall.envs[k].output, Zero)
       /\ LastCall.results[k].raw_prediction = Some(Zero)
  /\ \E k \in DOMAIN LastCall.results :
       /\ ~Get(LastCall.results[k], "disponible", FALSE)
       /\ LastCall.stage[k] = "model"

AvailableRaws ==
  LET kinds == SelectSeq(KindOrder,
                         LAMBDA k : IsAvailable(LastCall.results[k]))
  IN [i \in DOMAIN kinds |-> LastCall.results[kinds[i]].raw_prediction[1]]

\* C27: an ensemble request that finds the player's context empty and gets
\* an available result from k >= 1 kinds leaves k + 1 entries in it: the raw
\* estimates of the available kinds in the order lstm, sarimax, poisson,
\* then the combined raw estimate; and metadata.context_size is that length.
C27_EnsembleLeavesKPlusOne ==
  (Called /\ LastCall.op = "ensemble" /\ LastCall.context = << >>
   /\ AvailableRaws # << >>)
  => LET context == prediction_context[LastCall.player_name]
     IN /\ Len(context) = Len(AvailableRaws) + 1
        /\ [i \in DOMAIN context |-> context[i].prediction] =
             Append(AvailableRaws, response.ensemble[1].raw_prediction[1])
        /\ response.ensemble[1].metadata.context_size = Len(context)

\* two of the three kinds were available: three entries
C27_Witness ==
  /\ Called
  /\ LastCall.op = "ensemble"
  /\ LastCall.context = << >>
  /\ Len(AvailableRaws) = 2
  /\ Len(prediction_context[LastCall.player_name]) = 3
  /\ response.ensemble[1].metadata.context_size = 3

\* C28: an lstm bundle with a Keras model and no scaler (the model
\* directory holds no scaler file), given a window tensor X and a model that
\* answers, gives an available result from the unnormalized window.
C28_NoScalerStillPredicts ==
  (/\ Called
   /\ has_tf
   /\ storage.files.lstm = "no_scaler"
   /\ "lstm" \in DOMAIN LastCall.results
   /\ LastCall.seen.lstm # None
   /\ "X" \in DOMAIN LastCall.seen.lstm[1]
   /\ LastCall.seen.lstm[1].X # << >>
   /\ LastCall.envs.lstm.fault = "none")
  => IsAvailable(LastCall.results.lstm)

(***************************************************************************)
(* Claims about sessions, checked under Spec.                              *)
(***************************************************************************)
HistoryRows(player_name) ==
  Len(get_player_historical_data(HISTORICAL_DATA_FILE, player_name))

Window(player_name) ==
  model_cache[cache_key("lstm", player_name)].modelo_config.ventana

\* the lstm call of the last request reached the bundle
LstmCalled ==
  /\ Called
  /\ "lstm" \in DOMAIN LastCall.results
  /\ LastCall.stage.lstm # "skipped"
  /\ cache_key("lstm", LastCall.player_name) \in DOMAIN model_cache

\* unavailable, and with the insufficient-data error when feature
\* preparation was reached
InsufficientData(res, seen) ==
  /\ ~Get(res, "disponible", FALSE)
  /\ seen # None => Get(res, "error", None) = Some(insufficient_data)

\* C9 as stated: at any point of a session, an lstm prediction for a player
\* with fewer historical matches than the bundle's window is unavailable,
\* with the insufficient-data error.
C9_ShortHistoryIsInsufficient ==
  (LstmCalled /\ HistoryRows(LastCall.player_name)
                   < Window(LastCall.player_name)) =>
    InsufficientData(LastCall.results.lstm, LastCall.seen.lstm)

\* C9 amended: at any point of a session, an lstm prediction for a player
\* whose historical matches and stored context predictions together are
\* fewer than the bundle's window is unavailable, with the insufficient-data
\* error.
C9_ShortWorkingHistoryIsInsufficient ==
  (LstmCalled /\ HistoryRows(LastCall.player_name) + Len(LastCall.context)
                   < Window(LastCall.player_name)) =>
    InsufficientData(LastCall.results.lstm, LastCall.seen.lstm)

\* after a request for the other player, an lstm prediction for the player
\* with two matches and no context is refused for insufficient data
C9_Witness ==
  /\ LstmCalled
  /\ LastCall.player_name = "p1"
  /\ HistoryRows("p1") = 2
  /\ LastCall.context = << >>
  /\ prediction_context["p2"] # << >>
  /\ LastCall.seen.lstm # None
  /\ LastCall.results.lstm.error = Some(insufficient_data)

\* C14: once the engine holds the historical table, no request reads the
\* CSV again and the table stays the one that was read; a request that finds
\* no table reads the file once at most.
C14_CsvReadOnce ==
  [][/\ historical_data # None =>
          /\ historical_data' = historical_data
          /\ response'.call[1].csv_reads = 0
     /\ historical_data = None => response'.call[1].csv_reads <= 1]_vars

\* a third request of a session, served from the table read by an earlier one
C14_Witness ==
  /\ handled = 3
  /\ historical_data = Some(HISTORICAL_DATA_FILE)
  /\ Called
  /\ LastCall.csv_reads = 0
  /\ \E k \in DOMAIN LastCall.seen : LastCall.seen[k] # None

\* C16: a call of predict_with_model that returns an available result gives
\* the player's context exactly one more entry, the caller's match data as
\* they are at that moment with the raw_prediction of the result, the oldest
\* entry leaving a context that is full; a call that
\* returns an unavailable result leaves the player's context as it was; and
\* neither touches the context of another player.
C16_OneEntryPerAvailableResult ==
  [][response'.call[1].op = "predict" =>
       LET player_name == response'.call[1].player_name
           result == response'.predict[1]
           entry == ContextEntry(response'.call[1].after,
                                 result.raw_prediction[1])
       IN /\ \A q \in Players \ {player_name} :
               /\ prediction_context'[q] = prediction_context[q]
               /\ appended'[q] = appended[q]
          /\ result.disponible =>
               /\ appended'[player_name] = Append(appended[player_name], entry)
               /\ prediction_context'[player_name] =
                    add_prediction_evict(
                      Append(prediction_context[player_name], entry))
          /\ ~result.disponible =>
               /\ appended'[player_name] = appended[player_name]
               /\ prediction_context'[player_name] =
                    prediction_context[player_name]]_vars

\* a third request, predict_with_model with an available result for a player
\* whose context held an entry, the other player's context holding one too
C16_Witness ==
  /\ Called
  /\ LastCall.op = "predict"
  /\ response.predict[1].disponible
  /\ Len(prediction_context[LastCall.player_name]) = 2
  /\ \E q \in Players \ {LastCall.player_name} :
       Len(prediction_context[q]) = 1

\* C19: in whatever order the requests for a player are served, after each
\* of them the player's context holds at most max_context_size entries, and
\* they are the entries it held before followed by every entry the request
\* appended, less only as many of the oldest as the size forces out.
C19_AppendsSurviveUntilEvicted ==
  [][\A p \in Players :
       LET given == SubSeq(appended'[p], Len(appended[p]) + 1,
                           Len(appended'[p]))
           all == prediction_context[p] \o given
       IN /\ Len(prediction_context'[p]) <= max_context_size
          /\ Len(appended'[p]) >= Len(appended[p])
          /\ prediction_context'[p] =
               LastN(all, Min(max_context_size, Len(all)))]_vars

\* a request for a player whose earlier requests had filled the context
C19_Witness ==
  \E p \in Players :
    /\ Called
    /\ LastCall.player_name = p
    /\ Len(LastCall.context) >= max_context_size - 2
    /\ Len(appended[p]) > max_context_size
    /\ Len(prediction_context[p]) = max_context_size

\* C22: after feature preparation for a fixture dated by the routing layer,
\* the match data's Es_FinDeSemana is 1 when the date is a Friday, Saturday
\* or Sunday (weekday >= 4) and 0 when it is a Monday to Thursday.
C22_WeekendFlagFollowsDate ==
  (Called /\ \E k \in DOMAIN LastCall.seen : LastCall.seen[k] # None)
  => LastCall.after.Es_FinDeSemana =
       IF LastCall.match_data.Fecha.weekday >= 4 THEN 1 ELSE 0

\* the lstm strategy of the last request built a working history
LstmWorkingHistory ==
  /\ Called
  /\ "lstm" \in DOMAIN LastCall.seen
  /\ LastCall.seen.lstm # None
  /\ "historical_data" \in DOMAIN LastCall.seen.lstm[1]

\* C24: the working history of the lstm strategy holds, besides the player's
\* rows, one pseudo-row per context entry, and the pseudo-row of an entry
\* carries the entry's own opponent and venue with Goles set to the entry's
\* stored prediction.
C24_PseudoRowsCarryEntryData ==
  LstmWorkingHistory =>
    LET df_work == LastCall.seen.lstm[1].historical_data
        context == LastCall.context
    IN /\ Len(df_work) = HistoryRows(LastCall.player_name) + Len(context)
       /\ \A i \in DOMAIN context :
            \E j \in DOMAIN df_work :
              /\ df_work[j].Fecha = context[i].match_data.Fecha.dia
              /\ df_work[j].Goles = context[i].prediction
              /\ df_work[j].Oponente_Estandarizado =
                   context[i].match_data.Oponente_Estandarizado
              /\ df_work[j].Sede_Local = context[i].match_data.Sede_Local

\* what prepare_prediction_features gives kind k from the arguments and the
\* context the ensemble request began with
FeaturesAtRequestStart(k) ==
  prepare_prediction_features(
    model_cache[cache_key(k, LastCall.player_name)],
    get_player_historical_data(HISTORICAL_DATA_FILE, LastCall.player_name),
    LastCall.match_data, LastCall.context, k).data

\* C10: within one ensemble request the per-kind predictions are
\* independent: the features each kind's preparation computes are those it
\* computes from the request's match_data and the context the request began
\* with, whatever the other kinds' predictions wrote before it.
C10_KindsSeeRequestStart ==
  (Called /\ LastCall.op = "ensemble") =>
    \A k \in Kinds :
      LastCall.seen[k] # None =>
        LastCall.seen[k][1] = FeaturesAtRequestStart(k)

====
